---- MODULE Spec2Model ----
(***************************************************************************)
(* A model of the paperPy notebooks: the causal-attention modules with and *)
(* without a registered mask buffer (2_buffers/buffers.ipynb), the         *)
(* BatchNorm and multi-head-attention modules (4_batchnorm/batchnorm.ipynb)*)
(* and the experiment configuration and LayerNorm (1_mha/mha_test.ipynb).  *)
(*                                                                         *)
(* Tensors hold exact numbers.  A number is a pair <<n, d>>: the rational  *)
(* n/d when d > 0, and the IEEE specials -inf = <<-1,0>>, +inf = <<1,0>>   *)
(* and NaN = <<0,0>>.  softmax is taken to the base 4 instead of e (so     *)
(* that it stays rational on half-integer scores); it keeps what the model *)
(* relies on: positivity, monotonicity, rows summing to one, exp(-inf)=0.  *)
(***************************************************************************)
EXTENDS Integers, Sequences, FiniteSets, TLC

VARIABLES mods, batch, file, res, net, inp, outp, nupd, conf, tm

vars == <<mods, batch, file, res, net, inp, outp, nupd, conf, tm>>

\* the globals of buffers.ipynb, and the module under test of batchnorm.ipynb;
\* conf is the experiment configuration of mha_test.ipynb, tm the frame of a
\* call of time_pytorch_function_cpu
nbvars == <<mods, batch, file, res>>
nnvars == <<net, inp, outp, nupd>>

\* Python's None, and the value of a name that is not set
None == [none |-> TRUE]

(***************************************************************************)
(* Bounds of the model.                                                    *)
(***************************************************************************)
MaxCtx == 2          \* largest context_length a module is built with
MaxTokens == 3       \* longest input sequence handed to a forward pass
MaxUpdates == 2      \* running-statistics updates of one BatchNorm module
MaxRepeats == 2      \* largest num_repeats of a call of time_pytorch_function_cpu

(***************************************************************************)
(* Numbers.                                                                *)
(***************************************************************************)
Abs(a) == IF a < 0 THEN -a ELSE a

RECURSIVE Gcd(_, _)
Gcd(a, b) == IF b = 0 THEN a ELSE Gcd(b, a % b)

NInf == <<-1, 0>>
PInf == <<1, 0>>
NaN == <<0, 0>>

Sign(a) == IF a > 0 THEN 1 ELSE IF a < 0 THEN -1 ELSE 0

\* the number n/d in lowest terms (d # 0)
Q(n, d) ==
    IF d = 1 THEN <<n, 1>>
    ELSE LET g == Gcd(Abs(n), Abs(d))
             s == IF d < 0 THEN -1 ELSE 1
         IN <<(s * n) \div g, (s * d) \div g>>

I(n) == <<n, 1>>

IsFinite(a) == a[2] > 0
IsNaN(a) == a = NaN

XAdd(a, b) ==
    IF a[2] = 1 /\ b[2] = 1 THEN <<a[1] + b[1], 1>>
    ELSE IF a[2] > 0 /\ b[2] > 0
         THEN LET l == (a[2] \div Gcd(a[2], b[2])) * b[2]
              IN Q(a[1] * (l \div a[2]) + b[1] * (l \div b[2]), l)
    ELSE IF IsNaN(a) \/ IsNaN(b) THEN NaN
    ELSE IF ~IsFinite(a) /\ ~IsFinite(b) THEN (IF a = b THEN a ELSE NaN)
    ELSE IF ~IsFinite(a) THEN a
    ELSE b

XNeg(a) == <<-a[1], a[2]>>

XSub(a, b) == XAdd(a, XNeg(b))

XMul(a, b) ==
    IF a[2] > 0 /\ b[2] > 0 THEN Q(a[1] * b[1], a[2] * b[2])
    ELSE IF IsNaN(a) \/ IsNaN(b) THEN NaN
    ELSE <<Sign(a[1]) * Sign(b[1]), 0>>           \* 0 * inf = NaN

\* a / b
XDiv(a, b) ==
    IF a[2] > 0 /\ b[2] > 0 /\ b[1] # 0 THEN Q(a[1] * b[2], a[2] * b[1])
    ELSE IF IsNaN(a) \/ IsNaN(b) THEN NaN
    ELSE IF ~IsFinite(b) THEN (IF IsFinite(a) THEN I(0) ELSE NaN)
    ELSE IF b[1] = 0 THEN <<Sign(a[1]), 0>>
    ELSE <<Sign(a[1]) * Sign(b[1]), 0>>

RECURSIVE Pow2(_)
Pow2(e) == IF e = 0 THEN 1 ELSE 2 * Pow2(e - 1)

\* n ** 0.5 for the perfect squares the model uses
Sqrt(n) == CHOOSE r \in 0..n : r * r = n

\* n ** 0.5 and n ** -0.5 as numbers
PowHalf(n) == I(Sqrt(n))
PowNegHalf(n) == Q(1, Sqrt(n))

(***************************************************************************)
(* Vectors and matrices: sequences of numbers, sequences of rows.          *)
(***************************************************************************)
\* a vector and a matrix evaluated once, as tuples
Vec(f) == f \o <<>>
Mat(A) == [i \in 1..Len(A) |-> A[i] \o <<>>] \o <<>>

RECURSIVE SumInt(_)
SumInt(v) == IF v = <<>> THEN 0 ELSE v[1] + SumInt(Tail(v))

RECURSIVE XSum(_)
XSum(v) == IF v = <<>> THEN I(0) ELSE XAdd(v[1], XSum(Tail(v)))

Rows(A) == Len(A)
Cols(A) == IF A = <<>> THEN 0 ELSE Len(A[1])

Transpose(A) == Mat([j \in 1..Cols(A) |-> [i \in 1..Rows(A) |-> A[i][j]]])

\* A @ B
MatMul(A, B) ==
    Mat([i \in 1..Rows(A) |->
        [j \in 1..Cols(B) |->
            XSum([k \in 1..Cols(A) |-> XMul(A[i][k], B[k][j])])]])

\* nn.Linear without bias: x @ W^T, W of shape (out_features, in_features)
Linear(W, xx) == MatMul(xx, Transpose(W))

\* nn.Linear with bias
LinearB(W, b, xx) ==
    LET y == MatMul(xx, Transpose(W))
    IN Mat([i \in 1..Rows(y) |-> [j \in 1..Len(b) |-> XAdd(y[i][j], b[j])]])

\* A[:r, :c]
Slice(A, r, c) ==
    LET rr == IF r < Rows(A) THEN r ELSE Rows(A)
        cc == IF c < Cols(A) THEN c ELSE Cols(A)
    IN Mat([i \in 1..rr |-> [j \in 1..cc |-> A[i][j]]])

\* torch.triu(torch.ones(n, n), diagonal=k)
Triu(n, k) == Mat([i \in 1..n |-> [j \in 1..n |-> IF j - i >= k THEN I(1) ELSE I(0)]])

\* tensor.bool(): every non-zero entry (NaN and the infinities too) is True
Bool(A) == Mat([i \in 1..Rows(A) |-> [j \in 1..Cols(A) |-> A[i][j] # I(0)]])

\* a 2-d mask can be broadcast to r x c scores iff it has their shape (or a
\* dimension of size one); anything else is a RuntimeError in masked_fill_
Broadcastable(Mk, r, c) ==
    /\ Rows(Mk) = r \/ Rows(Mk) = 1
    /\ Cols(Mk) = c \/ Cols(Mk) = 1

\* scores.masked_fill_(mask, value), for a mask that can be broadcast
MaskedFill(S, Mk, v) ==
    Mat([i \in 1..Rows(S) |-> [j \in 1..Cols(S) |->
        IF Mk[IF Rows(Mk) = 1 THEN 1 ELSE i][IF Cols(Mk) = 1 THEN 1 ELSE j]
        THEN v ELSE S[i][j]]])

\* A / c, entry by entry
ScaleDiv(A, c) == Mat([i \in 1..Rows(A) |-> [j \in 1..Cols(A) |-> XDiv(A[i][j], c)]])

\* a <= b for finite numbers
Leq(a, b) == a[1] * b[2] <= b[1] * a[2]

\* the least finite entry of a row holding one
RowMin(v) ==
    LET F == {k \in 1..Len(v) : v[k][2] > 0}
    IN v[CHOOSE k \in F : \A k2 \in F : Leq(v[k], v[k2])]

\* 4 ** (a - lo) for finite a >= lo with a - lo a multiple of 1/2
Exp4(a, lo) == Pow2((2 * (a[1] * lo[2] - lo[1] * a[2])) \div (a[2] * lo[2]))

\* softmax of one row; a row with NaN, +inf or nothing finite is all NaN
SoftmaxRow(v) ==
    IF \/ \E k \in 1..Len(v) : v[k] = NaN \/ v[k] = PInf
       \/ \A k \in 1..Len(v) : ~IsFinite(v[k])
    THEN Vec([k \in 1..Len(v) |-> NaN])
    ELSE LET lo == RowMin(v)
             e == Vec([k \in 1..Len(v) |-> IF IsFinite(v[k]) THEN Exp4(v[k], lo) ELSE 0])
             tot == SumInt(e)
         IN Vec([k \in 1..Len(v) |-> Q(e[k], tot)])

\* torch.softmax(A, dim=-1)
Softmax(A) == Vec([i \in 1..Rows(A) |-> SoftmaxRow(A[i])])

(***************************************************************************)
(* Tensors and modules.  A tensor is a value on a device.  A module keeps  *)
(* its parameters and its registered buffers in two dictionaries that      *)
(* nn.Module sweeps over (to, state_dict, load_state_dict), and its other  *)
(* tensor attributes in a third that nn.Module never looks at.             *)
(***************************************************************************)
Devices == {"cpu", "cuda"}

Tensor(d, v) == [dev |-> d, val |-> v]

Empty == [n \in {} |-> None]

\* self.<name>: a registered buffer or a plain attribute
Attr(mod, name) ==
    IF name \in DOMAIN mod.buffers THEN mod.buffers[name] ELSE mod.attrs[name]

\* self.register_buffer(name, tensor)
register_buffer(mod, name, t) ==
    [mod EXCEPT !.buffers = (name :> t) @@ mod.buffers]

\* self.<name> = tensor: nn.Module.__setattr__ keeps a registered buffer in
\* the buffer dictionary; any other tensor is a plain attribute
setattr(mod, name, t) ==
    IF name \in DOMAIN mod.buffers
    THEN [mod EXCEPT !.buffers = (name :> t) @@ mod.buffers]
    ELSE [mod EXCEPT !.attrs = (name :> t) @@ mod.attrs]

\* module.to(device): parameters and buffers move, plain attributes do not
to(mod, d) ==
    [mod EXCEPT !.params = [n \in DOMAIN mod.params |-> Tensor(d, mod.params[n].val)],
                !.buffers = [n \in DOMAIN mod.buffers |-> Tensor(d, mod.buffers[n].val)]]

\* tensor.to(device)
tensor_to(t, d) == Tensor(d, t.val)

\* module.state_dict(): the buffers and the parameters, by name
state_dict(mod) == mod.buffers @@ mod.params

\* module.load_state_dict(sd), strict: the keys have to be the module's own;
\* each value is copied into the module's tensor, which stays on its device
load_state_dict(mod, sd) ==
    IF DOMAIN sd # DOMAIN state_dict(mod) THEN None
    ELSE [mod EXCEPT !.params = [n \in DOMAIN mod.params |-> Tensor(mod.params[n].dev, sd[n].val)],
                     !.buffers = [n \in DOMAIN mod.buffers |-> Tensor(mod.buffers[n].dev, sd[n].val)]]

(***************************************************************************)
(* Random initialisation and random draws, from small families.            *)
(* The query and key weights have one non-zero entry (+1 or -1) per head,  *)
(* which keeps every attention score in -1..1 and the powers of the        *)
(* softmax within 32-bit integers; value and output weights                *)
(* are dense.                                                              *)
(***************************************************************************)
Seeds == {1, 2}

QKInit(seed, tag, dout, din, hd) ==
    Mat([r \in 1..dout |-> [c \in 1..din |->
        IF (r - 1) % hd = 0 /\ c = 1 + ((seed + tag + (r - 1) \div hd) % din)
        THEN (IF (seed + tag * r) % 2 = 0 THEN I(1) ELSE I(-1))
        ELSE I(0)]])

VInit(seed, tag, dout, din) ==
    Mat([r \in 1..dout |-> [c \in 1..din |-> I(((seed + tag + 2 * r + c) % 4) - 1)]])

BiasInit(seed, dout) == Vec([r \in 1..dout |-> I(((seed + r) % 3) - 1)])

\* the dropout draw number kid for the attention matrix of head h of batch
\* element b: TRUE where the entry is kept
KeepPatterns == 0..3
Keep(kid, b, h, n) ==
    LET pat == (kid + b + h) % Cardinality(KeepPatterns)
    IN Mat([i \in 1..n |-> [j \in 1..n |->
          CASE pat = 0 -> TRUE
            [] pat = 1 -> (i + j) % 2 = 0
            [] pat = 2 -> (i + j) % 2 = 1
            [] OTHER -> FALSE]])

\* nn.Dropout(p)(A) with the draw keep: off in eval mode and for p = 0
Dropout(A, p, training, keep) ==
    IF ~training \/ p = I(0) THEN A
    ELSE Mat([i \in 1..Rows(A) |-> [j \in 1..Cols(A) |->
            IF keep[i][j] THEN XDiv(A[i][j], XSub(I(1), p)) ELSE I(0)]])

DropoutRates == {I(0), Q(1, 2)}

\* token embeddings: an input sample is a sequence of token ids; the calls
\* of batchnorm.ipynb's modules draw theirs from Vocab
Vocab == {1, 2}
Embed(tok, din) ==
    Vec([c \in 1..din |-> I(CASE tok = 0 -> 0
                               [] tok = 1 -> 1
                               [] OTHER -> (IF c % 2 = 1 THEN -1 ELSE 1))])

RECURSIVE TokSeqs(_)
TokSeqs(n) ==
    IF n = 0 THEN {<<>>}
    ELSE {Append(s, t) : s \in TokSeqs(n - 1), t \in Vocab}

Sample(toks, din) == Vec([i \in 1..Len(toks) |-> Embed(toks[i], din)])

\* torch.stack((inputs, ..., inputs), dim=0)
Stack(s, b) == Vec([k \in 1..b |-> s])

(***************************************************************************)
(* The single-head causal attention modules.                               *)
(***************************************************************************)
NewModule(cls, hp) ==
    [cls |-> cls, hp |-> hp, training |-> TRUE,
     params |-> Empty, buffers |-> Empty, attrs |-> Empty, children |-> <<>>]

CausalParams(seed, d_in, d_out) ==
    ("W_query.weight" :> Tensor("cpu", QKInit(seed, 1, d_out, d_in, d_out))) @@
    ("W_key.weight" :> Tensor("cpu", QKInit(seed, 2, d_out, d_in, d_out))) @@
    ("W_value.weight" :> Tensor("cpu", VInit(seed, 3, d_out, d_in)))

CausalHp(d_in, d_out, context_length, dropout) ==
    [d_in |-> d_in, d_out |-> d_out, context_length |-> context_length,
     dropout |-> dropout]

\* the fault of registering the mask of the class that keeps it as a plain
\* attribute
CausalAttentionWithoutBuffers_init_Registered(seed, d_in, d_out, context_length, dropout) ==
    LET m0 == NewModule("CausalAttentionWithoutBuffers",
                        CausalHp(d_in, d_out, context_length, dropout))
        m1 == [m0 EXCEPT !.params = CausalParams(seed, d_in, d_out)]
    IN register_buffer(m1, "mask", Tensor("cpu", Triu(context_length, 1)))

CausalAttentionWithoutBuffers_init(seed, d_in, d_out, context_length, dropout) ==
    LET m0 == NewModule("CausalAttentionWithoutBuffers",
                        CausalHp(d_in, d_out, context_length, dropout))
        m1 == [m0 EXCEPT !.params = CausalParams(seed, d_in, d_out)]
    IN setattr(m1, "mask", Tensor("cpu", Triu(context_length, 1)))

\* the fault of keeping the "Old:" line, self.mask = torch.triu(...), in the
\* class that registers its mask
CausalAttentionWithBuffer_init_PlainMask(seed, d_in, d_out, context_length, dropout) ==
    LET m0 == NewModule("CausalAttentionWithBuffer",
                        CausalHp(d_in, d_out, context_length, dropout))
        m1 == [m0 EXCEPT !.params = CausalParams(seed, d_in, d_out)]
    IN setattr(m1, "mask", Tensor("cpu", Triu(context_length, 1)))

CausalAttentionWithBuffer_init(seed, d_in, d_out, context_length, dropout) ==
    LET m0 == NewModule("CausalAttentionWithBuffer",
                        CausalHp(d_in, d_out, context_length, dropout))
        m1 == [m0 EXCEPT !.params = CausalParams(seed, d_in, d_out)]
    IN register_buffer(m1, "mask", Tensor("cpu", Triu(context_length, 1)))

\* the result of a call that raised, and the err of one that returned
Raise(e) == [err |-> e]
NoErr == "none"

\* the fault of leaving the scores unmasked
MaskScores_Skipped(S, Mk) == S

\* attn_scores.masked_fill_(mask, -torch.inf)
MaskScores(S, Mk) == MaskedFill(S, Mk, NInf)

\* one batch element of the forward pass, all tensors on one device
CausalSample(mod, xs, keep) ==
    LET num_tokens == Rows(xs)
        keys == Linear(mod.params["W_key.weight"].val, xs)
        queries == Linear(mod.params["W_query.weight"].val, xs)
        values == Linear(mod.params["W_value.weight"].val, xs)
        scores0 == MatMul(queries, Transpose(keys))
        mask_bool == Slice(Bool(Attr(mod, "mask").val), num_tokens, num_tokens)
    IN IF ~Broadcastable(mask_bool, num_tokens, num_tokens) THEN [ok |-> FALSE]
       ELSE LET attn_scores == MaskScores(scores0, mask_bool)
                sm == Softmax(ScaleDiv(attn_scores, PowHalf(Cols(keys))))
                attn_weights == Dropout(sm, mod.hp.dropout, mod.training, keep)
            IN [ok |-> TRUE, attn_weights |-> attn_weights,
                context_vec |-> MatMul(attn_weights, values)]

\* forward(self, x) of the three single-head classes, x a tensor holding a
\* batch; a tensor on another device than the one it meets is a RuntimeError
CausalForward(mod, xt, kid) ==
    LET wdev == mod.params["W_key.weight"].dev
        b == Len(xt.val)
        r == Vec([k \in 1..b |-> CausalSample(mod, xt.val[k], Keep(kid, k, 1, Rows(xt.val[k])))])
    IN IF xt.dev # wdev THEN Raise("RuntimeError")
       ELSE IF Attr(mod, "mask").dev # wdev THEN Raise("RuntimeError")
       ELSE IF \E k \in 1..b : ~r[k].ok THEN Raise("RuntimeError")
       ELSE [err |-> NoErr, dev |-> wdev,
             attn_weights |-> Vec([k \in 1..b |-> r[k].attn_weights]),
             context_vec |-> Vec([k \in 1..b |-> r[k].context_vec])]

\* the fault of a forward that takes the mask to the scores' device itself
CausalForward_MaskFollows(mod, xt, kid) ==
    CausalForward(setattr(mod, "mask",
                          tensor_to(Attr(mod, "mask"), mod.params["W_key.weight"].dev)),
                  xt, kid)

CausalAttentionWithoutBuffers_forward(mod, xt, kid) == CausalForward(mod, xt, kid)

CausalAttentionWithBuffer_forward(mod, xt, kid) == CausalForward(mod, xt, kid)

(***************************************************************************)
(* buffers.ipynb as a state machine.  The state is the notebook's globals: *)
(* the four modules (the two new_ ones unset until their cell runs), the   *)
(* batch, the file model.pth, and what the last cell evaluated to.         *)
(***************************************************************************)
ModNames == {"ca_without_buffer", "ca_with_buffer",
             "new_ca_with_buffer", "new_ca_without_buffer"}

\* the notebook's sizes; d_out is 1 where the notebook has 2, so that
\* d_out ** 0.5 is a rational number
nb_d_in == 3
nb_d_out == 1
nb_context_length == MaxCtx

\* the random states a new_ module is initialised from: not the ones the
\* two original modules were
NewSeeds == {3}

\* inputs, one row per token, and batch = torch.stack((inputs, inputs))
nb_inputs == Sample([i \in 1..nb_context_length |-> i % 3], nb_d_in)
nb_batch == Stack(nb_inputs, 2)

ClsOf(name) ==
    IF name \in {"ca_without_buffer", "new_ca_without_buffer"}
    THEN "CausalAttentionWithoutBuffers" ELSE "CausalAttentionWithBuffer"

\* Class(d_in, d_out, context_length, 0.0)
Construct(cls, seed) ==
    IF cls = "CausalAttentionWithoutBuffers"
    THEN CausalAttentionWithoutBuffers_init(seed, nb_d_in, nb_d_out, nb_context_length, I(0))
    ELSE CausalAttentionWithBuffer_init(seed, nb_d_in, nb_d_out, nb_context_length, I(0))

\* module(batch)
Call(mod, xt, kid) ==
    IF mod.cls = "CausalAttentionWithoutBuffers"
    THEN CausalAttentionWithoutBuffers_forward(mod, xt, kid)
    ELSE CausalAttentionWithBuffer_forward(mod, xt, kid)

\* t[t == 1.] = 2., in place
FillOnes(v) == Mat([i \in 1..Rows(v) |-> [j \in 1..Cols(v) |-> IF v[i][j] = I(1) THEN I(2) ELSE v[i][j]]])

NoRes == [op |-> "none"]

Init ==
    /\ mods = [n \in ModNames |->
                 CASE n = "ca_without_buffer" -> Construct(ClsOf(n), 1)
                   [] n = "ca_with_buffer" -> Construct(ClsOf(n), 2)
                   [] OTHER -> None]
    /\ batch = Tensor("cpu", nb_batch)
    /\ file = None
    /\ res = NoRes
    /\ net = None /\ inp = None /\ outp = None /\ nupd = 0
    /\ conf = None
    /\ tm = None

\* batch = batch.to(d)
BatchTo(d) ==
    /\ batch' = tensor_to(batch, d)
    /\ res' = [op |-> "batch_to", dev |-> d]
    /\ UNCHANGED <<mods, file, nnvars, conf, tm>>

\* the modules the notebook moves and modifies; the new_ ones are only built,
\* loaded, called and listed
Originals == {"ca_without_buffer", "ca_with_buffer"}

\* the fault of a move that takes the plain attributes along
ModuleTo_WithAttrs(n, d) ==
    /\ n \in Originals
    /\ mods' = [mods EXCEPT ![n] =
                  [to(mods[n], d) EXCEPT !.attrs =
                      [a \in DOMAIN mods[n].attrs |-> tensor_to(mods[n].attrs[a], d)]]]
    /\ res' = [op |-> "to", who |-> n, dev |-> d]
    /\ UNCHANGED <<batch, file, nnvars, conf, tm>>

\* <n>.to(d)
ModuleTo(n, d) ==
    /\ n \in Originals
    /\ mods' = [mods EXCEPT ![n] = to(mods[n], d)]
    /\ res' = [op |-> "to", who |-> n, dev |-> d]
    /\ UNCHANGED <<batch, file, nnvars, conf, tm>>

\* <n>.mask = <n>.mask.to(d), the cell run on the module without buffers
MaskTo(n, d) ==
    /\ n \in Originals
    /\ mods[n].cls = "CausalAttentionWithoutBuffers"
    /\ mods' = [mods EXCEPT ![n] = setattr(mods[n], "mask", tensor_to(Attr(mods[n], "mask"), d))]
    /\ res' = [op |-> "mask_to", who |-> n, dev |-> d]
    /\ UNCHANGED <<batch, file, nnvars, conf, tm>>

\* <n>.mask[<n>.mask == 1.] = 2.
ModifyMask(n) ==
    /\ n \in Originals
    /\ LET t == Attr(mods[n], "mask")
       IN mods' = [mods EXCEPT ![n] = setattr(mods[n], "mask", Tensor(t.dev, FillOnes(t.val)))]
    /\ res' = [op |-> "modify_mask", who |-> n]
    /\ UNCHANGED <<batch, file, nnvars, conf, tm>>

\* with torch.no_grad(): context_vecs = <n>(batch)
Forward(n) ==
    /\ mods[n] # None
    /\ res' = [op |-> "forward", who |-> n, r |-> Call(mods[n], batch, 0)]
    /\ UNCHANGED <<mods, batch, file, nnvars, conf, tm>>

\* the fault of listing dict(<n>.named_parameters()) for the state_dict
StateDict_ParametersOnly(n) ==
    /\ mods[n] # None
    /\ res' = [op |-> "state_dict", who |-> n, sd |-> mods[n].params]
    /\ UNCHANGED <<mods, batch, file, nnvars, conf, tm>>

\* <n>.state_dict()
StateDict(n) ==
    /\ mods[n] # None
    /\ res' = [op |-> "state_dict", who |-> n, sd |-> state_dict(mods[n])]
    /\ UNCHANGED <<mods, batch, file, nnvars, conf, tm>>

\* the fault of a cell that builds <dst> and forgets load_state_dict
SaveLoad_NotLoaded(src, dst) ==
    /\ src \in Originals
    /\ dst \in ModNames \ Originals
    /\ \E seed \in NewSeeds :
         /\ file' = state_dict(mods[src])
         /\ mods' = [mods EXCEPT ![dst] = Construct(ClsOf(dst), seed)]
         /\ res' = [op |-> "save_load", src |-> src, dst |-> dst, err |-> NoErr]
    /\ UNCHANGED <<batch, nnvars, conf, tm>>

\* torch.save(<src>.state_dict(), "model.pth")
\* <dst> = Class(d_in, d_out, context_length, 0.0)
\* <dst>.load_state_dict(torch.load("model.pth"))
SaveLoad(src, dst) ==
    /\ src \in Originals
    /\ dst \in ModNames \ Originals
    /\ \E seed \in NewSeeds :
         LET sd == state_dict(mods[src])
             fresh == Construct(ClsOf(dst), seed)
             loaded == load_state_dict(fresh, sd)
         IN /\ file' = sd
            /\ mods' = [mods EXCEPT ![dst] = IF loaded = None THEN fresh ELSE loaded]
            /\ res' = [op |-> "save_load", src |-> src, dst |-> dst,
                       err |-> IF loaded = None THEN "RuntimeError" ELSE NoErr]
    /\ UNCHANGED <<batch, nnvars, conf, tm>>

Next ==
    \/ \E d \in Devices : BatchTo(d)
    \/ \E n \in ModNames, d \in Devices : ModuleTo(n, d)
    \/ \E n \in ModNames, d \in Devices : MaskTo(n, d)
    \/ \E n \in ModNames : ModifyMask(n)
    \/ \E n \in ModNames : Forward(n)
    \/ \E n \in ModNames : StateDict(n)
    \/ \E src \in ModNames, dst \in ModNames : SaveLoad(src, dst)

Spec == Init /\ [][Next]_vars

(***************************************************************************)
(* Properties of buffers.ipynb, checked under Spec.                        *)
(***************************************************************************)
WeightNames == {"W_query.weight", "W_key.weight", "W_value.weight"}

\* the names that are set, by class
Set(cls) == {n \in ModNames : mods[n] # None /\ mods[n].cls = cls}

MaskOf(n) == Attr(mods[n], "mask")

\* C1: whatever moves came before, the registered mask of a
\* CausalAttentionWithBuffer module is on the device of its W_query, W_key
\* and W_value weights.
C1_BufferMaskOnWeightsDevice ==
    \A n \in Set("CausalAttentionWithBuffer") :
        \A w \in WeightNames : MaskOf(n).dev = mods[n].params[w].dev

\* ca_with_buffer.to("cuda") has run and the mask is on the GPU
C1_Witness ==
    /\ res.op = "to" /\ res.who = "ca_with_buffer" /\ res.dev = "cuda"
    /\ MaskOf("ca_with_buffer").dev = "cuda"
    /\ mods["ca_with_buffer"].params["W_query.weight"].dev = "cuda"

\* C2: <n>.to(d) on a CausalAttentionWithoutBuffers module puts its weights
\* on d and leaves its mask on the device it was on; and the mask of such a
\* module changes device only in a step <n>.mask = <n>.mask.to(d).
C2_ToLeavesPlainMask ==
    [][\A n \in Set("CausalAttentionWithoutBuffers") :
          /\ \A d \in Devices :
                ModuleTo(n, d) =>
                    /\ \A w \in WeightNames : mods'[n].params[w].dev = d
                    /\ Attr(mods'[n], "mask").dev = MaskOf(n).dev
          /\ Attr(mods'[n], "mask").dev # MaskOf(n).dev =>
                \E d \in Devices : MaskTo(n, d)]_vars

\* ca_without_buffer.to("cuda") has run: the weights are on the GPU, the mask
\* is still on the CPU
C2_Witness ==
    /\ res.op = "to" /\ res.who = "ca_without_buffer" /\ res.dev = "cuda"
    /\ mods["ca_without_buffer"].params["W_query.weight"].dev = "cuda"
    /\ MaskOf("ca_without_buffer").dev = "cpu"

\* the input, the weights and the mask of module n are on one device
OneDevice(n) ==
    /\ \A w \in WeightNames : mods[n].params[w].dev = batch.dev
    /\ MaskOf(n).dev = batch.dev

\* C3: a call of a CausalAttentionWithoutBuffers module on the batch returns
\* context vectors exactly when the batch, the weights and the mask are on
\* one device; otherwise it raises a RuntimeError and returns nothing.
C3_ForwardNeedsOneDevice ==
    (res.op = "forward" /\ mods[res.who].cls = "CausalAttentionWithoutBuffers") =>
        IF OneDevice(res.who)
        THEN res.r.err = NoErr /\ "context_vec" \in DOMAIN res.r
        ELSE res.r.err = "RuntimeError" /\ "context_vec" \notin DOMAIN res.r

\* the call that succeeds on the GPU, after the module, the batch and then
\* the mask were moved there
C3_Witness ==
    /\ res.op = "forward" /\ res.who = "ca_without_buffer"
    /\ res.r.err = NoErr /\ res.r.dev = "cuda"
    /\ MaskOf("ca_without_buffer").dev = "cuda"

\* C4: the keys of state_dict() are the three projection weights, and
\* "mask" as well for a CausalAttentionWithBuffer; there is no mask entry
\* for a CausalAttentionWithoutBuffers.
C4_StateDictKeys ==
    res.op = "state_dict" =>
        DOMAIN res.sd =
            WeightNames \cup (IF mods[res.who].cls = "CausalAttentionWithBuffer"
                              THEN {"mask"} ELSE {})

\* ca_with_buffer.state_dict() has been listed, with the mask in it
C4_Witness ==
    /\ res.op = "state_dict" /\ res.who = "ca_with_buffer"
    /\ "mask" \in DOMAIN res.sd
    /\ res.sd["mask"] = MaskOf("ca_with_buffer")

\* the mask a constructor of the notebook builds
nb_mask == Triu(nb_context_length, 1)

\* C5: after ca_with_buffer's state_dict is saved and loaded into a new
\* CausalAttentionWithBuffer, the new module's mask equals ca_with_buffer's
\* entry for entry: the modified one when it was modified, and then not the
\* one the constructor built.
C5_BufferRoundTrip ==
    (res.op = "save_load" /\ res.src = "ca_with_buffer"
        /\ res.dst = "new_ca_with_buffer") =>
        /\ res.err = NoErr
        /\ MaskOf("new_ca_with_buffer").val = MaskOf("ca_with_buffer").val
        /\ MaskOf("ca_with_buffer").val # nb_mask =>
              MaskOf("new_ca_with_buffer").val # nb_mask

\* the round trip of a mask whose ones were set to 2
C5_Witness ==
    /\ res.op = "save_load" /\ res.src = "ca_with_buffer"
    /\ res.dst = "new_ca_with_buffer"
    /\ MaskOf("ca_with_buffer").val = FillOnes(nb_mask)
    /\ MaskOf("new_ca_with_buffer").val = FillOnes(nb_mask)
    /\ FillOnes(nb_mask) # nb_mask

\* C6: after ca_without_buffer's state_dict is saved and loaded into a new
\* CausalAttentionWithoutBuffers, the new module's mask is the strict
\* upper-triangular 0/1 mask of its constructor, modified original or not.
C6_PlainMaskNotRestored ==
    (res.op = "save_load" /\ res.src = "ca_without_buffer"
        /\ res.dst = "new_ca_without_buffer") =>
        /\ res.err = NoErr
        /\ MaskOf("new_ca_without_buffer").val = nb_mask
        /\ \A i, j \in 1..nb_context_length :
              MaskOf("new_ca_without_buffer").val[i][j] = (IF j > i THEN I(1) ELSE I(0))

\* the load after the original's ones were set to 2: the two masks differ
C6_Witness ==
    /\ res.op = "save_load" /\ res.src = "ca_without_buffer"
    /\ res.dst = "new_ca_without_buffer"
    /\ MaskOf("ca_without_buffer").val = FillOnes(nb_mask)
    /\ MaskOf("new_ca_without_buffer").val # MaskOf("ca_without_buffer").val

(***************************************************************************)
(* The attention modules of batchnorm.ipynb.                               *)
(***************************************************************************)
CasualAttention_init(seed, d_in, d_out, context_length, dropout) ==
    LET m0 == NewModule("CasualAttention",
                        CausalHp(d_in, d_out, context_length, dropout))
        m1 == [m0 EXCEPT !.params = CausalParams(seed, d_in, d_out)]
    IN register_buffer(m1, "mask", Tensor("cpu", Triu(context_length, 1)))

CasualAttention_forward(mod, xt, kid) == CausalForward(mod, xt, kid)

\* columns (h-1)*hd+1 .. h*hd of A: head h after view(b, n, num_heads, head_dim)
SplitHead(A, h, hd) ==
    Mat([i \in 1..Rows(A) |-> [e \in 1..hd |-> A[i][(h - 1) * hd + e]]])

\* torch.cat(heads, dim=-1), and transpose(1, 2).contiguous().view(b, n, d_out)
CatHeads(hs) ==
    LET hd == Cols(hs[1])
    IN Mat([i \in 1..Rows(hs[1]) |->
              [c \in 1..(Len(hs) * hd) |-> hs[((c - 1) \div hd) + 1][i][((c - 1) % hd) + 1]]])

\* rows lo..hi of a weight matrix
RowsOf(W, lo, hi) == Mat([r \in 1..(hi - lo + 1) |-> W[lo + r - 1]])

\* the fault of an output projection onto the width of one head,
\* nn.Linear(d_out*num_heads, d_out)
MHA_Wrapper_init_NarrowProj(seed, d_in, d_out, context_length, dropout, num_heads) ==
    LET m0 == NewModule("MHA_Wrapper",
                        [d_in |-> d_in, d_out |-> d_out, context_length |-> context_length,
                         dropout |-> dropout, num_heads |-> num_heads])
    IN [m0 EXCEPT
          !.children = Vec([h \in 1..num_heads |->
                              CasualAttention_init(seed + h - 1, d_in, d_out, context_length, dropout)]),
          !.params = ("out_proj.weight" :> Tensor("cpu", VInit(seed, 4, d_out, d_out * num_heads))) @@
                     ("out_proj.bias" :> Tensor("cpu", BiasInit(seed, d_out)))]

MHA_Wrapper_init(seed, d_in, d_out, context_length, dropout, num_heads) ==
    LET m0 == NewModule("MHA_Wrapper",
                        [d_in |-> d_in, d_out |-> d_out, context_length |-> context_length,
                         dropout |-> dropout, num_heads |-> num_heads])
    IN [m0 EXCEPT
          !.children = Vec([h \in 1..num_heads |->
                              CasualAttention_init(seed + h - 1, d_in, d_out, context_length, dropout)]),
          !.params = ("out_proj.weight" :> Tensor("cpu", VInit(seed, 4, d_out * num_heads, d_out * num_heads))) @@
                     ("out_proj.bias" :> Tensor("cpu", BiasInit(seed, d_out * num_heads)))]

\* module.train() / module.eval(): the flag is set on the module and its children
SetTraining(mod, flag) ==
    [mod EXCEPT !.training = flag,
                !.children = Vec([h \in 1..Len(mod.children) |->
                                    [mod.children[h] EXCEPT !.training = flag]])]

MHA_Wrapper_forward(mod, xt, kid) ==
    LET H == Len(mod.children)
        hr == Vec([h \in 1..H |-> CasualAttention_forward(mod.children[h], xt, kid + h - 1)])
        b == Len(xt.val)
    IN IF \E h \in 1..H : hr[h].err # NoErr THEN Raise("RuntimeError")
       ELSE LET cat == Vec([k \in 1..b |-> CatHeads([h \in 1..H |-> hr[h].context_vec[k]])])
            IN [err |-> NoErr, dev |-> hr[1].dev,
                attn_weights |-> Vec([k \in 1..b |-> Vec([h \in 1..H |-> hr[h].attn_weights[k]])]),
                context_vec |-> Vec([k \in 1..b |-> Vec([h \in 1..H |-> hr[h].context_vec[k]])]),
                out |-> Vec([k \in 1..b |->
                          LinearB(mod.params["out_proj.weight"].val,
                                  mod.params["out_proj.bias"].val, cat[k])])]

MultiHp(d_in, d_out, context_length, dropout, num_heads) ==
    [d_in |-> d_in, d_out |-> d_out, context_length |-> context_length,
     dropout |-> dropout, num_heads |-> num_heads, head_dim |-> d_out \div num_heads]

\* assert d_out % num_heads == 0: a failed assertion leaves no module
MHA_init(seed, d_in, d_out, context_length, dropout, num_heads) ==
    IF d_out % num_heads # 0 THEN Raise("AssertionError")
    ELSE LET hd == d_out \div num_heads
             m0 == NewModule("MHA", MultiHp(d_in, d_out, context_length, dropout, num_heads))
             m1 == [m0 EXCEPT !.params =
                      ("W_query.weight" :> Tensor("cpu", QKInit(seed, 1, d_out, d_in, hd))) @@
                      ("W_key.weight" :> Tensor("cpu", QKInit(seed, 2, d_out, d_in, hd))) @@
                      ("W_value.weight" :> Tensor("cpu", VInit(seed, 3, d_out, d_in))) @@
                      ("out_proj.weight" :> Tensor("cpu", VInit(seed, 4, d_out, d_out))) @@
                      ("out_proj.bias" :> Tensor("cpu", BiasInit(seed, d_out)))]
         IN register_buffer(m1, "mask", Tensor("cpu", Triu(context_length, 1)))

\* one head of one batch element of MHA.forward
MHA_Head(mod, keys, queries, values, mask_bool, keep) ==
    LET attn_scores == MaskedFill(MatMul(queries, Transpose(keys)), mask_bool, NInf)
        sm == Softmax(ScaleDiv(attn_scores, PowHalf(Cols(keys))))
        attn_weights == Dropout(sm, mod.hp.dropout, mod.training, keep)
    IN [attn_weights |-> attn_weights,
        context_vec |-> MatMul(attn_scores, values)]

MHA_Sample(mod, xs, kid, k) ==
    LET num_tokens == Rows(xs)
        H == mod.hp.num_heads
        hd == mod.hp.head_dim
        keys == Linear(mod.params["W_key.weight"].val, xs)
        queries == Linear(mod.params["W_query.weight"].val, xs)
        values == Linear(mod.params["W_value.weight"].val, xs)
        mask_bool == Slice(Bool(Attr(mod, "mask").val), num_tokens, num_tokens)
    IN IF ~Broadcastable(mask_bool, num_tokens, num_tokens) THEN [ok |-> FALSE]
       ELSE LET hs == Vec([h \in 1..H |->
                        MHA_Head(mod, SplitHead(keys, h, hd), SplitHead(queries, h, hd),
                                 SplitHead(values, h, hd), mask_bool,
                                 Keep(kid, k, h, num_tokens))])
                cat == CatHeads([h \in 1..H |-> hs[h].context_vec])
            IN [ok |-> TRUE,
                attn_weights |-> Vec([h \in 1..H |-> hs[h].attn_weights]),
                context_vec |-> Vec([h \in 1..H |-> hs[h].context_vec]),
                out |-> LinearB(mod.params["out_proj.weight"].val,
                                mod.params["out_proj.bias"].val, cat)]

MHA_forward(mod, xt, kid) ==
    IF xt.dev # mod.params["out_proj.weight"].dev THEN Raise("RuntimeError")
    ELSE IF Attr(mod, "mask").dev # xt.dev THEN Raise("RuntimeError")
    ELSE LET b == Len(xt.val)
             r == Vec([k \in 1..b |-> MHA_Sample(mod, xt.val[k], kid, k)])
         IN IF \E k \in 1..b : ~r[k].ok THEN Raise("RuntimeError")
            ELSE [err |-> NoErr, dev |-> xt.dev,
                  attn_weights |-> Vec([k \in 1..b |-> r[k].attn_weights]),
                  context_vec |-> Vec([k \in 1..b |-> r[k].context_vec]),
                  out |-> Vec([k \in 1..b |-> r[k].out])]

MultiHeadAttentionCombinedQKV_init(seed, d_in, d_out, num_heads, context_length, dropout) ==
    IF d_out % num_heads # 0 THEN Raise("AssertionError")
    ELSE LET hd == d_out \div num_heads
             m0 == NewModule("MultiHeadAttentionCombinedQKV",
                             MultiHp(d_in, d_out, context_length, dropout, num_heads))
             m1 == [m0 EXCEPT !.params =
                      ("qkv.weight" :> Tensor("cpu", QKInit(seed, 1, d_out, d_in, hd) \o
                                                     QKInit(seed, 2, d_out, d_in, hd) \o
                                                     VInit(seed, 3, d_out, d_in))) @@
                      ("proj.weight" :> Tensor("cpu", VInit(seed, 4, d_out, d_out))) @@
                      ("proj.bias" :> Tensor("cpu", BiasInit(seed, d_out)))]
         IN register_buffer(m1, "mask", Tensor("cpu", Triu(context_length, 1)))

\* one head of one batch element of MultiHeadAttentionCombinedQKV.forward
CombinedQKV_Head(mod, queries, keys, values, mask_bool, keep) ==
    LET attn_scores == MaskedFill(MatMul(queries, Transpose(keys)), mask_bool, NInf)
        sm == Softmax(ScaleDiv(attn_scores, PowNegHalf(Cols(keys))))
        attn_weights == Dropout(sm, mod.hp.dropout, mod.training, keep)
    IN [attn_weights |-> attn_weights,
        context_vec |-> MatMul(attn_weights, values)]

CombinedQKV_Sample(mod, xs, kid, k) ==
    LET num_tokens == Rows(xs)
        embed_dim == Cols(xs)
        H == mod.hp.num_heads
        hd == mod.hp.head_dim
        d_out == H * hd
        qkv == Linear(mod.params["qkv.weight"].val, xs)
        \* view(b, n, 3, num_heads, head_dim), permute(2, 0, 3, 1, 4), unbind(0)
        part(w, h) == Mat([i \in 1..num_tokens |-> [e \in 1..hd |->
                              qkv[i][(w - 1) * d_out + (h - 1) * hd + e]]])
        mask_bool == Slice(Bool(Attr(mod, "mask").val), num_tokens, num_tokens)
    IN IF ~Broadcastable(mask_bool, num_tokens, num_tokens) THEN [ok |-> FALSE]
       \* view(batch_size, num_tokens, embed_dim) of num_tokens * d_out numbers
       ELSE IF d_out # embed_dim THEN [ok |-> FALSE]
       ELSE LET hs == Vec([h \in 1..H |->
                        CombinedQKV_Head(mod, part(1, h), part(2, h), part(3, h),
                                         mask_bool, Keep(kid, k, h, num_tokens))])
                cat == CatHeads([h \in 1..H |-> hs[h].context_vec])
            IN [ok |-> TRUE,
                attn_weights |-> Vec([h \in 1..H |-> hs[h].attn_weights]),
                context_vec |-> Vec([h \in 1..H |-> hs[h].context_vec]),
                out |-> LinearB(mod.params["proj.weight"].val,
                                mod.params["proj.bias"].val, cat)]

MultiHeadAttentionCombinedQKV_forward(mod, xt, kid) ==
    IF xt.dev # mod.params["proj.weight"].dev THEN Raise("RuntimeError")
    ELSE IF Attr(mod, "mask").dev # xt.dev THEN Raise("RuntimeError")
    ELSE LET b == Len(xt.val)
             r == Vec([k \in 1..b |-> CombinedQKV_Sample(mod, xt.val[k], kid, k)])
         IN IF \E k \in 1..b : ~r[k].ok THEN Raise("RuntimeError")
            ELSE [err |-> NoErr, dev |-> xt.dev,
                  attn_weights |-> Vec([k \in 1..b |-> r[k].attn_weights]),
                  context_vec |-> Vec([k \in 1..b |-> r[k].context_vec]),
                  out |-> Vec([k \in 1..b |-> r[k].out])]

(***************************************************************************)
(* The modules built on torch.nn.functional.scaled_dot_product_attention.  *)
(***************************************************************************)
\* mask.logical_not()
LogicalNot(Mk) == Mat([i \in 1..Rows(Mk) |-> [j \in 1..Cols(Mk) |-> ~Mk[i][j]]])

\* torch.ones(L, S).tril(diagonal=0) as booleans: the positions is_causal=True
\* lets take part
Tril(L, S) == Mat([i \in 1..L |-> [j \in 1..S |-> j <= i]])

\* scaled_dot_product_attention(queries, keys, values, attn_mask, dropout_p,
\* is_causal) for one head of one batch element.  A boolean attn_mask, like
\* the lower triangle of is_causal, marks with True the positions that take
\* part; the scores of the others are set to -inf before the softmax.
\* dropout_p is applied whatever the mode of the calling module.
scaled_dot_product_attention(queries, keys, values, attn_mask, dropout_p, is_causal, keep) ==
    LET L == Rows(queries)
        S == Rows(keys)
        scores == ScaleDiv(MatMul(queries, Transpose(keys)), PowHalf(Cols(queries)))
        takes_part == IF is_causal THEN Tril(L, S) ELSE attn_mask
    IN IF ~is_causal /\ ~Broadcastable(attn_mask, L, S) THEN [ok |-> FALSE]
       ELSE LET attn_weight == Dropout(Softmax(MaskedFill(scores, LogicalNot(takes_part), NInf)),
                                       dropout_p, TRUE, keep)
            IN [ok |-> TRUE,
                attn_weight |-> attn_weight,
                out |-> MatMul(attn_weight, values)]

\* the parameters of the two classes: qkv without bias, proj with bias
SDPAParams(seed, d_in, d_out, hd) ==
    ("qkv.weight" :> Tensor("cpu", QKInit(seed, 1, d_out, d_in, hd) \o
                                   QKInit(seed, 2, d_out, d_in, hd) \o
                                   VInit(seed, 3, d_out, d_in))) @@
    ("proj.weight" :> Tensor("cpu", VInit(seed, 4, d_out, d_out))) @@
    ("proj.bias" :> Tensor("cpu", BiasInit(seed, d_out)))

\* the fault of a constructor without its assertion
MHAPyTorchScaledDotProduct_init_Unchecked(seed, d_in, d_out, num_heads, context_length, dropout) ==
    LET m0 == NewModule("MHAPyTorchScaledDotProduct",
                        MultiHp(d_in, d_out, context_length, dropout, num_heads))
    IN [m0 EXCEPT !.params = SDPAParams(seed, d_in, d_out, d_out \div num_heads)]

MHAPyTorchScaledDotProduct_init(seed, d_in, d_out, num_heads, context_length, dropout) ==
    IF d_out % num_heads # 0 THEN Raise("AssertionError")
    ELSE LET m0 == NewModule("MHAPyTorchScaledDotProduct",
                             MultiHp(d_in, d_out, context_length, dropout, num_heads))
         IN [m0 EXCEPT !.params = SDPAParams(seed, d_in, d_out, d_out \div num_heads)]

MHAPyTorchSDPAWithoutFlash_init(seed, d_in, d_out, num_heads, context_length, dropout) ==
    IF d_out % num_heads # 0 THEN Raise("AssertionError")
    ELSE LET m0 == NewModule("MHAPyTorchSDPAWithoutFlash",
                             MultiHp(d_in, d_out, context_length, dropout, num_heads))
             m1 == [m0 EXCEPT !.params = SDPAParams(seed, d_in, d_out, d_out \div num_heads)]
         IN register_buffer(m1, "mask", Tensor("cpu", Bool(Triu(context_length, 1))))

\* the attn_mask that MHAPyTorchSDPAWithoutFlash.forward selects
SelectAttnMask(mod, num_tokens) ==
    IF mod.hp.context_length >= num_tokens
    THEN Slice(Attr(mod, "mask").val, num_tokens, num_tokens)
    ELSE Slice(Attr(mod, "mask").val, mod.hp.context_length, mod.hp.context_length)

\* one batch element of the two forwards: attn_mask is None (a record) for
\* the class that passes is_causal=True
SDPA_Sample(mod, xs, attn_mask, is_causal, kid, k) ==
    LET num_tokens == Rows(xs)
        H == mod.hp.num_heads
        hd == mod.hp.head_dim
        d_out == mod.hp.d_out
        qkv == Linear(mod.params["qkv.weight"].val, xs)
        \* view(b, n, 3, num_heads, head_dim), permute(2, 0, 3, 1, 4), unbind(0)
        part(w, h) == Mat([i \in 1..num_tokens |-> [e \in 1..hd |->
                              qkv[i][(w - 1) * d_out + (h - 1) * hd + e]]])
        use_dropout == IF ~mod.training THEN I(0) ELSE mod.hp.dropout
        hs == Vec([h \in 1..H |->
                scaled_dot_product_attention(part(1, h), part(2, h), part(3, h), attn_mask,
                                             use_dropout, is_causal, Keep(kid, k, h, num_tokens))])
    IN IF \E h \in 1..H : ~hs[h].ok THEN [ok |-> FALSE]
       ELSE [ok |-> TRUE,
             attn_weights |-> Vec([h \in 1..H |-> hs[h].attn_weight]),
             context_vec |-> Vec([h \in 1..H |-> hs[h].out]),
             out |-> LinearB(mod.params["proj.weight"].val, mod.params["proj.bias"].val,
                             CatHeads([h \in 1..H |-> hs[h].out]))]

SDPA_Forward(mod, xt, attn_mask, is_causal, kid) ==
    LET b == Len(xt.val)
        r == Vec([k \in 1..b |-> SDPA_Sample(mod, xt.val[k], attn_mask, is_causal, kid, k)])
    IN IF \E k \in 1..b : ~r[k].ok THEN Raise("RuntimeError")
       ELSE [err |-> NoErr, dev |-> xt.dev,
             attn_weights |-> Vec([k \in 1..b |-> r[k].attn_weights]),
             context_vec |-> Vec([k \in 1..b |-> r[k].context_vec]),
             out |-> Vec([k \in 1..b |-> r[k].out])]

MHAPyTorchScaledDotProduct_forward(mod, xt, kid) ==
    IF xt.dev # mod.params["qkv.weight"].dev THEN Raise("RuntimeError")
    ELSE SDPA_Forward(mod, xt, None, TRUE, kid)

MHAPyTorchSDPAWithoutFlash_forward(mod, xt, kid) ==
    IF xt.dev # mod.params["qkv.weight"].dev THEN Raise("RuntimeError")
    ELSE IF Attr(mod, "mask").dev # xt.dev THEN Raise("RuntimeError")
    ELSE SDPA_Forward(mod, xt, SelectAttnMask(mod, Rows(xt.val[1])), FALSE, kid)

(***************************************************************************)
(* BatchNorm.  An input is a tensor of shape [batch_size, channels, *]; its *)
(* value is kept as x.view(batch_size, x.shape[1], -1), with the shape     *)
(* beside it.  A normalised entry a / sqrt(v) + s is kept as <<a, v, s>>,  *)
(* the square root left unevaluated.                                       *)
(***************************************************************************)
RECURSIVE Prod(_)
Prod(sq) == IF sq = <<>> THEN 1 ELSE sq[1] * Prod(Tail(sq))

ShapedTensor(d, shape, v) == [dev |-> d, shape |-> shape, val |-> v]

BatchNorm_init(channels, eps, momentum, affine, track_running_stats) ==
    LET m0 == NewModule("BatchNorm",
                        [channels |-> channels, eps |-> eps, momentum |-> momentum,
                         affine |-> affine, track_running_stats |-> track_running_stats])
        m1 == IF affine
              THEN [m0 EXCEPT !.params =
                      ("scale" :> Tensor("cpu", Vec([c \in 1..channels |-> I(1)]))) @@
                      ("shift" :> Tensor("cpu", Vec([c \in 1..channels |-> I(0)])))]
              ELSE m0
    IN IF track_running_stats
       THEN register_buffer(
                register_buffer(m1, "exp_mean", Tensor("cpu", Vec([c \in 1..channels |-> I(0)]))),
                "exp_var", Tensor("cpu", Vec([c \in 1..channels |-> I(1)])))
       ELSE m1

\* x.mean(dim=[0, 2]) of a [batch_size, channels, n] value
MeanDim02(v) ==
    LET bs == Len(v)
        ch == Len(v[1])
        n == Len(v[1][1])
    IN Vec([c \in 1..ch |->
              XDiv(XSum([k \in 1..(bs * n) |-> v[((k - 1) \div n) + 1][c][((k - 1) % n) + 1]]),
                   I(bs * n))])

\* x ** 2
Square(v) ==
    Vec([i \in 1..Len(v) |-> Vec([c \in 1..Len(v[i]) |->
        Vec([j \in 1..Len(v[i][c]) |-> XMul(v[i][c][j], v[i][c][j])])])])

\* (1 - momentum) * old + momentum * new
Ema(momentum, old, new) ==
    Vec([c \in 1..Len(old) |->
           XAdd(XMul(XSub(I(1), momentum), old[c]), XMul(momentum, new[c]))])

\* the fault of a forward that leaves the running statistics as they are
RunningStats_Kept(mod, mean, var) == mod

\* self.exp_mean = (1 - momentum) * self.exp_mean + momentum * mean, and the
\* same for exp_var: the buffers are reassigned, and stay registered buffers
RunningStats(mod, mean, var) ==
    LET em == Attr(mod, "exp_mean")
        ev == Attr(mod, "exp_var")
    IN setattr(setattr(mod, "exp_mean", Tensor(em.dev, Ema(mod.hp.momentum, em.val, mean))),
               "exp_var", Tensor(ev.dev, Ema(mod.hp.momentum, ev.val, var)))

\* the fault of checking the channels after the running statistics are
\* updated (the batch's statistics broadcast to the module's channels)
BatchNorm_forward_LateAssert(mod, xt) ==
    IF mod.hp.channels # xt.shape[2]
    THEN LET bmean == MeanDim02(xt.val)
             mean_x2 == MeanDim02(Square(xt.val))
             at(v, c) == v[IF c <= Len(v) THEN c ELSE 1]
             mean == Vec([c \in 1..mod.hp.channels |-> at(bmean, c)])
             var == Vec([c \in 1..mod.hp.channels |->
                           XSub(at(mean_x2, c), XMul(at(bmean, c), at(bmean, c)))])
         IN [r |-> Raise("AssertionError"),
             mod |-> IF mod.training /\ mod.hp.track_running_stats
                     THEN RunningStats(mod, mean, var) ELSE mod]
    ELSE LET track == mod.hp.track_running_stats
             batch_stats == mod.training \/ ~track
             bmean == MeanDim02(xt.val)
             mean_x2 == MeanDim02(Square(xt.val))
             bvar == Vec([c \in 1..Len(bmean) |-> XSub(mean_x2[c], XMul(bmean[c], bmean[c]))])
             mean == IF batch_stats THEN bmean ELSE Attr(mod, "exp_mean").val
             var == IF batch_stats THEN bvar ELSE Attr(mod, "exp_var").val
             g(c) == IF mod.hp.affine THEN mod.params["scale"].val[c] ELSE I(1)
             sh(c) == IF mod.hp.affine THEN mod.params["shift"].val[c] ELSE I(0)
             x_norm == Vec([i \in 1..Len(xt.val) |-> Vec([c \in 1..Len(xt.val[i]) |->
                           Vec([j \in 1..Len(xt.val[i][c]) |->
                                  <<XMul(g(c), XSub(xt.val[i][c][j], mean[c])),
                                    XAdd(var[c], mod.hp.eps), sh(c)>>])])])
         IN [r |-> [err |-> NoErr, shape |-> xt.shape, val |-> x_norm, mean |-> mean, var |-> var],
             mod |-> IF mod.training /\ track THEN RunningStats(mod, mean, var) ELSE mod]

\* the fault of normalising with the statistics of the batch in every mode
BatchNorm_forward_BatchStatsOnly(mod, xt) ==
    LET x_shape == xt.shape
        track == mod.hp.track_running_stats
    IN IF mod.hp.channels # x_shape[2]
       THEN [r |-> Raise("AssertionError"), mod |-> mod]
       ELSE LET mean == MeanDim02(xt.val)
                mean_x2 == MeanDim02(Square(xt.val))
                var == Vec([c \in 1..Len(mean) |-> XSub(mean_x2[c], XMul(mean[c], mean[c]))])
                mod1 == IF mod.training /\ track THEN RunningStats(mod, mean, var) ELSE mod
                g(c) == IF mod.hp.affine THEN mod.params["scale"].val[c] ELSE I(1)
                sh(c) == IF mod.hp.affine THEN mod.params["shift"].val[c] ELSE I(0)
                x_norm == Vec([i \in 1..Len(xt.val) |-> Vec([c \in 1..Len(xt.val[i]) |->
                              Vec([j \in 1..Len(xt.val[i][c]) |->
                                     <<XMul(g(c), XSub(xt.val[i][c][j], mean[c])),
                                       XAdd(var[c], mod.hp.eps), sh(c)>>])])])
            IN [r |-> [err |-> NoErr, shape |-> x_shape, val |-> x_norm, mean |-> mean, var |-> var],
                mod |-> mod1]

\* forward(self, x): the result and the module after the call
BatchNorm_forward(mod, xt) ==
    LET x_shape == xt.shape
        track == mod.hp.track_running_stats
    IN IF mod.hp.channels # x_shape[2]
       THEN [r |-> Raise("AssertionError"), mod |-> mod]
       ELSE LET batch_stats == mod.training \/ ~track
                bmean == MeanDim02(xt.val)
                mean_x2 == MeanDim02(Square(xt.val))
                bvar == Vec([c \in 1..Len(bmean) |-> XSub(mean_x2[c], XMul(bmean[c], bmean[c]))])
                mean == IF batch_stats THEN bmean ELSE Attr(mod, "exp_mean").val
                var == IF batch_stats THEN bvar ELSE Attr(mod, "exp_var").val
                mod1 == IF mod.training /\ track THEN RunningStats(mod, mean, var) ELSE mod
                g(c) == IF mod.hp.affine THEN mod.params["scale"].val[c] ELSE I(1)
                sh(c) == IF mod.hp.affine THEN mod.params["shift"].val[c] ELSE I(0)
                x_norm == Vec([i \in 1..Len(xt.val) |-> Vec([c \in 1..Len(xt.val[i]) |->
                              Vec([j \in 1..Len(xt.val[i][c]) |->
                                     <<XMul(g(c), XSub(xt.val[i][c][j], mean[c])),
                                       XAdd(var[c], mod.hp.eps), sh(c)>>])])])
            IN [r |-> [err |-> NoErr, shape |-> x_shape, val |-> x_norm, mean |-> mean, var |-> var],
                mod |-> mod1]

(***************************************************************************)
(* batchnorm.ipynb as a state machine: one module under test (net), built  *)
(* by one of the constructors, switched between training and evaluation    *)
(* mode, and called on inputs; inp and outp are the last call's argument   *)
(* and result.  head_dim is 1 or 4, so that head_dim ** 0.5 is exact.      *)
(***************************************************************************)
BatchSizes == {1, 2}

\* (d_in, d_out, num_heads) of the multi-head modules; (4, 4, 3) fails the
\* constructors' assertion, and d_in = 2, d_out = 1 is the case of an output
\* narrower than the embedding
HeadCfgs == {<<2, 1, 1>>, <<2, 2, 2>>, <<4, 4, 1>>, <<4, 4, 3>>}

RECURSIVE TokSeqsUpTo(_)
TokSeqsUpTo(n) == IF n = 0 THEN {} ELSE TokSeqs(n) \cup TokSeqsUpTo(n - 1)

AttnInputs(d_in) ==
    {Tensor("cpu", Stack(Sample(t, d_in), b)) : t \in TokSeqsUpTo(MaxTokens), b \in BatchSizes}

\* the dropout draws that can differ: one when dropout is off
KeepIds(mod) ==
    IF mod.cls # "BatchNorm" /\ mod.training /\ mod.hp.dropout # I(0)
    THEN KeepPatterns ELSE {0}

SingleHeadClasses == {"CausalAttentionWithoutBuffers", "CausalAttentionWithBuffer",
                      "CasualAttention"}

InitNN ==
    /\ net = None /\ inp = None /\ outp = None /\ nupd = 0
    /\ mods = [n \in ModNames |-> None]
    /\ batch = None /\ file = None /\ res = NoRes
    /\ conf = None
    /\ tm = None

\* a constructor call: the module, or the error it raised
Built(r) ==
    /\ net = None
    /\ IF "err" \in DOMAIN r
       THEN net' = None /\ outp' = r
       ELSE net' = r /\ outp' = None
    /\ inp' = None
    /\ UNCHANGED <<nupd, nbvars, conf, tm>>

NewCausalAttentionWithoutBuffers ==
    \E seed \in Seeds, d_out \in {1, 4}, cl \in 1..MaxCtx, p \in DropoutRates :
        Built(CausalAttentionWithoutBuffers_init(seed, 2, d_out, cl, p))

NewCausalAttentionWithBuffer ==
    \E seed \in Seeds, d_out \in {1, 4}, cl \in 1..MaxCtx, p \in DropoutRates :
        Built(CausalAttentionWithBuffer_init(seed, 2, d_out, cl, p))

NewCasualAttention ==
    \E seed \in Seeds, d_out \in {1, 4}, cl \in 1..MaxCtx, p \in DropoutRates :
        Built(CasualAttention_init(seed, 2, d_out, cl, p))

NewMHA_Wrapper ==
    \E seed \in Seeds, hc \in {<<1, 1>>, <<1, 2>>, <<4, 1>>}, cl \in 1..MaxCtx, p \in DropoutRates :
        Built(MHA_Wrapper_init(seed, 2, hc[1], cl, p, hc[2]))

NewMHA ==
    \E seed \in Seeds, hc \in HeadCfgs, cl \in 1..MaxCtx, p \in DropoutRates :
        Built(MHA_init(seed, hc[1], hc[2], cl, p, hc[3]))

NewMultiHeadAttentionCombinedQKV ==
    \E seed \in Seeds, hc \in HeadCfgs, cl \in 1..MaxCtx, p \in DropoutRates :
        Built(MultiHeadAttentionCombinedQKV_init(seed, hc[1], hc[2], hc[3], cl, p))

NewMHAPyTorchScaledDotProduct ==
    \E seed \in Seeds, hc \in HeadCfgs, cl \in 1..MaxCtx, p \in DropoutRates :
        Built(MHAPyTorchScaledDotProduct_init(seed, hc[1], hc[2], hc[3], cl, p))

NewMHAPyTorchSDPAWithoutFlash ==
    \E seed \in Seeds, hc \in HeadCfgs, cl \in 1..MaxCtx, p \in DropoutRates :
        Built(MHAPyTorchSDPAWithoutFlash_init(seed, hc[1], hc[2], hc[3], cl, p))

\* net.train(); a result of the other mode is dropped
Train ==
    /\ net # None /\ ~net.training
    /\ inp = None \/ outp # None
    /\ net' = SetTraining(net, TRUE)
    /\ inp' = None /\ outp' = None
    /\ UNCHANGED <<nupd, nbvars, conf, tm>>

\* net.eval()
Eval ==
    /\ net # None /\ net.training
    /\ inp = None \/ outp # None
    /\ net' = SetTraining(net, FALSE)
    /\ inp' = None /\ outp' = None
    /\ UNCHANGED <<nupd, nbvars, conf, tm>>

\* out = net(x), x being inp.x and kid the dropout draw of the call, for a
\* module whose forward leaves it as it is
Ran(r) ==
    /\ outp' = r
    /\ UNCHANGED <<net, inp, nupd, nbvars, conf, tm>>

\* a call is pending on a module of class cls
Pending(cls) == net # None /\ inp # None /\ outp = None /\ net.cls = cls

RunCausalAttentionWithoutBuffers ==
    /\ Pending("CausalAttentionWithoutBuffers")
    /\ Ran(CausalAttentionWithoutBuffers_forward(net, inp.x, inp.kid))

RunCausalAttentionWithBuffer ==
    /\ Pending("CausalAttentionWithBuffer")
    /\ Ran(CausalAttentionWithBuffer_forward(net, inp.x, inp.kid))

RunCasualAttention ==
    /\ Pending("CasualAttention")
    /\ Ran(CasualAttention_forward(net, inp.x, inp.kid))

RunMHA_Wrapper ==
    /\ Pending("MHA_Wrapper")
    /\ Ran(MHA_Wrapper_forward(net, inp.x, inp.kid))

RunMHA ==
    /\ Pending("MHA")
    /\ Ran(MHA_forward(net, inp.x, inp.kid))

RunMultiHeadAttentionCombinedQKV ==
    /\ Pending("MultiHeadAttentionCombinedQKV")
    /\ Ran(MultiHeadAttentionCombinedQKV_forward(net, inp.x, inp.kid))

RunMHAPyTorchScaledDotProduct ==
    /\ Pending("MHAPyTorchScaledDotProduct")
    /\ Ran(MHAPyTorchScaledDotProduct_forward(net, inp.x, inp.kid))

RunMHAPyTorchSDPAWithoutFlash ==
    /\ Pending("MHAPyTorchSDPAWithoutFlash")
    /\ Ran(MHAPyTorchSDPAWithoutFlash_forward(net, inp.x, inp.kid))

\* the default eps=1e-5 and momentum=0.1
bn_eps == Q(1, 100000)
bn_momentum == Q(1, 10)

NewBatchNorm ==
    \E channels \in {1, 2}, affine \in BOOLEAN, track \in BOOLEAN :
        Built(BatchNorm_init(channels, bn_eps, bn_momentum, affine, track))

\* inputs of shape [b, c] and [b, c, 2]
BNShapes == {<<2, 1>>, <<2, 2>>, <<1, 1, 2>>, <<1, 2, 2>>, <<2, 1, 2>>, <<2, 2, 2>>}

BNInput(shape, id) ==
    ShapedTensor("cpu", shape,
        Vec([i \in 1..shape[1] |-> Vec([c \in 1..shape[2] |->
            Vec([j \in 1..Prod(Tail(Tail(shape))) |-> I(((id + i + 2 * c + j * j) % 3) - 1)])])]))

BNInputs == {BNInput(sh, id) : sh \in BNShapes, id \in {0, 1}}

\* the call reassigns the running statistics
Updates(mod, xt) ==
    mod.training /\ mod.hp.track_running_stats /\ mod.hp.channels = xt.shape[2]

RunBatchNorm ==
    /\ Pending("BatchNorm")
    /\ LET fr == BatchNorm_forward(net, inp.x)
       IN /\ outp' = fr.r
          /\ net' = fr.mod
          /\ nupd' = IF Updates(net, inp.x) THEN nupd + 1 ELSE nupd
    /\ UNCHANGED <<inp, nbvars, conf, tm>>

\* the inputs a module is called on
InputsFor(mod) ==
    IF mod.cls = "BatchNorm"
    THEN {xt \in BNInputs : Updates(mod, xt) => nupd < MaxUpdates}
    ELSE AttnInputs(mod.hp.d_in)

\* x = ..., with the random state the next call will draw its dropout from.
\* A call leaves an attention module as it was, so one call per stay in a
\* mode shows all of them; a BatchNorm module is called again and again
SetInput ==
    /\ net # None
    /\ inp = None \/ (outp # None /\ net.cls = "BatchNorm")
    /\ \E xt \in InputsFor(net), kid \in KeepIds(net) : inp' = [x |-> xt, kid |-> kid]
    /\ outp' = None
    /\ UNCHANGED <<net, nupd, nbvars, conf, tm>>

NextNN ==
    \/ NewCausalAttentionWithoutBuffers
    \/ NewCausalAttentionWithBuffer
    \/ NewCasualAttention
    \/ NewMHA_Wrapper
    \/ NewMHA
    \/ NewMultiHeadAttentionCombinedQKV
    \/ NewMHAPyTorchScaledDotProduct
    \/ NewMHAPyTorchSDPAWithoutFlash
    \/ NewBatchNorm
    \/ Train
    \/ Eval
    \/ SetInput
    \/ RunCausalAttentionWithoutBuffers
    \/ RunCausalAttentionWithBuffer
    \/ RunCasualAttention
    \/ RunMHA_Wrapper
    \/ RunMHA
    \/ RunMultiHeadAttentionCombinedQKV
    \/ RunMHAPyTorchScaledDotProduct
    \/ RunMHAPyTorchSDPAWithoutFlash
    \/ RunBatchNorm

SpecNN == InitNN /\ [][NextNN]_vars

(***************************************************************************)
(* Properties of the modules' forward passes, checked under SpecNN.        *)
(***************************************************************************)
\* the last call returned: net is the module, inp the argument, outp the result
Done(classes) ==
    /\ net # None /\ net.cls \in classes
    /\ inp # None /\ outp # None
    /\ outp.err = NoErr

\* this step is the return of a pending call on a module of one of classes
Returns(classes) ==
    /\ net # None /\ net.cls \in classes
    /\ inp # None /\ outp = None /\ outp' # None

AttentionClasses == SingleHeadClasses \cup
                    {"MHA_Wrapper", "MHA", "MultiHeadAttentionCombinedQKV",
                     "MHAPyTorchScaledDotProduct", "MHAPyTorchSDPAWithoutFlash"}

\* the values of the buffers a module and its children registered
BufferVals(mod) ==
    <<[n \in DOMAIN mod.buffers |-> mod.buffers[n].val],
      [h \in 1..Len(mod.children) |->
          [n \in DOMAIN mod.children[h].buffers |-> mod.children[h].buffers[n].val]]>>

BatchMean(xt) == MeanDim02(xt.val)
BatchVar(xt) ==
    LET m == MeanDim02(xt.val)
        m2 == MeanDim02(Square(xt.val))
    IN Vec([c \in 1..Len(m) |-> XSub(m2[c], XMul(m[c], m[c]))])

SingleHeadForward(mod, xt, kid) ==
    CASE mod.cls = "CausalAttentionWithoutBuffers" ->
            CausalAttentionWithoutBuffers_forward(mod, xt, kid)
      [] mod.cls = "CausalAttentionWithBuffer" ->
            CausalAttentionWithBuffer_forward(mod, xt, kid)
      [] OTHER -> CasualAttention_forward(mod, xt, kid)

\* the batch xt with the token at position p replaced by token t
Replaced(xt, p, t) ==
    Tensor(xt.dev,
           Vec([b \in 1..Len(xt.val) |->
                  Vec([i \in 1..Rows(xt.val[b]) |->
                         IF i = p THEN Embed(t, Cols(xt.val[b])) ELSE xt.val[b][i]])]))

NumTokens == Rows(inp.x.val[1])

\* C8: in the three single-head classes, for an input of num_tokens <=
\* context_length, the attention weight of position i on position j is zero
\* whenever j > i, and replacing the token at any position p by any other
\* leaves the context vectors at the positions before p as they were (every
\* two inputs that agree up to position i are linked by such replacements).
C8_SingleHeadCausal ==
    (Done(SingleHeadClasses) /\ NumTokens <= net.hp.context_length) =>
        /\ \A b \in 1..Len(inp.x.val), i \in 1..NumTokens, j \in 1..NumTokens :
              j > i => outp.attn_weights[b][i][j] = I(0)
        /\ \A p \in 2..NumTokens, t \in Vocab :
              LET alt == SingleHeadForward(net, Replaced(inp.x, p, t), inp.kid)
              IN /\ alt.err = NoErr
                 /\ \A b \in 1..Len(inp.x.val), i \in 1..(p - 1) :
                       alt.context_vec[b][i] = outp.context_vec[b][i]

\* a call on two tokens whose second position attends to the first, and
\* whose second context vector does change with the second token
C8_Witness ==
    /\ Done({"CasualAttention"}) /\ NumTokens = 2 /\ net.hp.context_length = 2
    /\ outp.attn_weights[1][1][2] = I(0)
    /\ outp.attn_weights[1][2][1] # I(0)
    /\ \E t \in Vocab :
          SingleHeadForward(net, Replaced(inp.x, 2, t), inp.kid).context_vec[1][2]
              # outp.context_vec[1][2]

\* head h of an MHA module as a CasualAttention module of d_out = head_dim:
\* the rows of the three projections that view(b, n, num_heads, head_dim)
\* hands to head h, and the same mask, dropout rate and mode
HeadOf(mod, h) ==
    LET hd == mod.hp.head_dim
        rows(W) == Tensor(W.dev, RowsOf(W.val, (h - 1) * hd + 1, h * hd))
        m0 == NewModule("CasualAttention",
                        CausalHp(mod.hp.d_in, hd, mod.hp.context_length, mod.hp.dropout))
    IN [m0 EXCEPT !.training = mod.training,
                  !.buffers = mod.buffers,
                  !.params = ("W_query.weight" :> rows(mod.params["W_query.weight"])) @@
                             ("W_key.weight" :> rows(mod.params["W_key.weight"])) @@
                             ("W_value.weight" :> rows(mod.params["W_value.weight"]))]

\* C9, as the specification states it: for an input of num_tokens <=
\* context_length, each head's context vector in MHA.forward is the one a CasualAttention head with that head's weights
\* computes, the dropped-out softmax weights times the values.
C9_MHAHeadsAreCasualAttention ==
    (Done({"MHA"}) /\ NumTokens <= net.hp.context_length) =>
        \A h \in 1..net.hp.num_heads :
            LET r == CasualAttention_forward(HeadOf(net, h), inp.x, inp.kid + h - 1)
            IN /\ r.err = NoErr
               /\ \A b \in 1..Len(inp.x.val) :
                     outp.context_vec[b][h] = r.context_vec[b]

\* a MultiHeadAttentionCombinedQKV module as the MHA module with the same
\* weights: qkv.weight holds the query, key and value projections in turn
AsMHA(mod) ==
    LET d_out == mod.hp.d_out
        W == mod.params["qkv.weight"]
        rows(lo, hi) == Tensor(W.dev, RowsOf(W.val, lo, hi))
        m0 == NewModule("MHA", mod.hp)
    IN [m0 EXCEPT !.training = mod.training,
                  !.buffers = mod.buffers,
                  !.params = ("W_query.weight" :> rows(1, d_out)) @@
                             ("W_key.weight" :> rows(d_out + 1, 2 * d_out)) @@
                             ("W_value.weight" :> rows(2 * d_out + 1, 3 * d_out)) @@
                             ("out_proj.weight" :> mod.params["proj.weight"]) @@
                             ("out_proj.bias" :> mod.params["proj.bias"])]

\* C10, as the specification states it: MultiHeadAttentionCombinedQKV
\* divides the scores by head_dim ** 0.5 before the softmax as MHA does, so
\* for an input of num_tokens <= context_length its attention weights are
\* those of the MHA module with the same weights.
C10_CombinedQKVScalesLikeMHA ==
    (Done({"MultiHeadAttentionCombinedQKV"}) /\ NumTokens <= net.hp.context_length) =>
        LET r == MHA_forward(AsMHA(net), inp.x, inp.kid)
        IN /\ r.err = NoErr
           /\ outp.attn_weights = r.attn_weights

(***************************************************************************)
(* LayerNorm of mha_test.ipynb.  A Python value is kept with its type; a   *)
(* tensor of any number of dimensions is kept as its shape and the         *)
(* row-major sequence of its entries, so the trailing dimensions that are  *)
(* normalised together are runs of consecutive entries.                    *)
(***************************************************************************)
PyVal(type, v) == [type |-> type, v |-> v]

\* if isinstance(normalized_shape, int): torch.Size([normalized_shape])
\* elif isinstance(normalized_shape, list): torch.Size(normalized_shape)
ToSize_ListOnly(normalized_shape) ==
    IF normalized_shape.type = "list" THEN PyVal("Size", normalized_shape.v)
    ELSE normalized_shape

ToSize(normalized_shape) ==
    IF normalized_shape.type = "int" THEN PyVal("Size", <<normalized_shape.v>>)
    ELSE IF normalized_shape.type = "list" THEN PyVal("Size", normalized_shape.v)
    ELSE normalized_shape

\* the fault of parameters of the size of the last normalised dimension only
LNParams_LastDim(shape) ==
    LET last == IF shape = <<>> THEN <<>> ELSE <<shape[Len(shape)]>>
    IN ("gain" :> ShapedTensor("cpu", last, Vec([e \in 1..Prod(last) |-> I(1)]))) @@
       ("bias" :> ShapedTensor("cpu", last, Vec([e \in 1..Prod(last) |-> I(0)])))

\* nn.Parameter(torch.ones(normalized_shape)), nn.Parameter(torch.zeros(normalized_shape))
LNParams(shape) ==
    ("gain" :> ShapedTensor("cpu", shape, Vec([e \in 1..Prod(shape) |-> I(1)]))) @@
    ("bias" :> ShapedTensor("cpu", shape, Vec([e \in 1..Prod(shape) |-> I(0)])))

LayerNorm_init(normalized_shape, eps, elementwise_affine) ==
    LET size == ToSize(normalized_shape)
    IN IF size.type # "Size" THEN Raise("AssertionError")
       ELSE LET m0 == NewModule("LayerNorm",
                                [normalized_shape |-> size, eps |-> eps,
                                 elementwise_affine |-> elementwise_affine])
            IN IF elementwise_affine
               THEN [m0 EXCEPT !.params = LNParams(size.v)]
               ELSE m0

\* shape[-k:]: the last k dimensions, and the whole shape when there are
\* fewer than k and when k = 0 (a slice from -0 starts at index 0)
LastDims(shape, k) ==
    IF k = 0 \/ k >= Len(shape) THEN shape
    ELSE SubSeq(shape, Len(shape) - k + 1, Len(shape))

\* lines 201-208: mean and variance over each run of n = prod(normalized
\* shape) entries; a normalised entry a / sqrt(v) + s is kept as <<a, v, s>>
LayerNorm_normalise(mod, xt) ==
    LET n == Prod(mod.hp.normalized_shape.v)
        x == xt.val
        run(e) == [j \in 1..n |-> x[((e - 1) \div n) * n + j]]
        mean(e) == XDiv(XSum(run(e)), I(n))
        mean_x2(e) == XDiv(XSum([j \in 1..n |-> XMul(run(e)[j], run(e)[j])]), I(n))
        var(e) == XSub(mean_x2(e), XMul(mean(e), mean(e)))
        affine == mod.hp.elementwise_affine
        gain(e) == IF affine THEN mod.params["gain"].val[((e - 1) % n) + 1] ELSE I(1)
        bias(e) == IF affine THEN mod.params["bias"].val[((e - 1) % n) + 1] ELSE I(0)
    IN [err |-> NoErr, shape |-> xt.shape,
        val |-> Vec([e \in 1..Len(x) |->
                   <<XMul(gain(e), XSub(x[e], mean(e))), XAdd(var(e), mod.hp.eps), bias(e)>>])]

\* the fault of a forward without its sanity check: it normalises what it
\* can split into runs, and fails inside torch otherwise
LayerNorm_forward_Unchecked(mod, xt) ==
    IF Len(xt.val) % Prod(mod.hp.normalized_shape.v) = 0
    THEN LayerNorm_normalise(mod, xt)
    ELSE Raise("RuntimeError")

\* assert self.normalized_shape == x.shape[-len(self.normalized_shape):]
LayerNorm_forward(mod, xt) ==
    IF mod.hp.normalized_shape.v # LastDims(xt.shape, Len(mod.hp.normalized_shape.v))
    THEN Raise("AssertionError")
    ELSE LayerNorm_normalise(mod, xt)

\* the default eps=1e-5
ln_eps == Q(1, 100000)

\* the normalized_shape arguments of the constructor calls: ints, lists,
\* Sizes (x.shape[2:] in _test), and values of other types
NormalizedShapes ==
    <<PyVal("int", 2), PyVal("int", 3),
      PyVal("list", <<2>>), PyVal("list", <<2, 3>>), PyVal("list", <<>>),
      PyVal("Size", <<3>>), PyVal("Size", <<2, 2>>),
      PyVal("tuple", <<2>>), PyVal("float", 2), PyVal("NoneType", 0)>>

\* ln = LayerNorm(normalized_shape, elementwise_affine=...)
NewLayerNorm ==
    \E a \in 1..Len(NormalizedShapes), affine \in BOOLEAN :
        Built(LayerNorm_init(NormalizedShapes[a], ln_eps, affine))

LNShapes == {<<2>>, <<3>>, <<2, 2>>, <<2, 3>>, <<3, 2>>, <<1, 2, 2>>, <<2, 2, 3>>, <<1, 1, 2, 2>>}

LNInput(shape, id) ==
    ShapedTensor("cpu", shape, Vec([e \in 1..Prod(shape) |-> I(((id + e * e) % 3) - 1)]))

\* x = torch.zeros(...); x = ln(x)
CallLayerNorm ==
    /\ net # None /\ net.cls = "LayerNorm"
    /\ \E shape \in LNShapes, id \in {0, 1} :
          /\ inp' = [x |-> LNInput(shape, id), kid |-> 0]
          /\ outp' = LayerNorm_forward(net, LNInput(shape, id))
    /\ UNCHANGED <<net, nupd, nbvars, conf, tm>>

\* the dictionary handed to experiment.configs
experiment_overrides ==
    ("tokenizer" :> "character") @@ ("prompt_separator" :> "") @@
    ("prompt" :> "It is ") @@ ("text" :> "tiny_shakespeare") @@
    ("seq_len" :> 512) @@ ("epochs" :> 32) @@ ("batch_size" :> 16) @@
    ("inner_iterations" :> 10) @@
    ("d_model" :> 256) @@ ("transformer.n_heads" :> 16) @@
    ("transformer.ffn.d_ff" :> 1024) @@
    ("optimizer.optimizer" :> "Noam") @@ ("optimizer.learning_rate" :> 1)

\* conf = Configs(): a configuration with no value set
NewConfigs ==
    /\ conf = None
    /\ conf' = [set |-> {}, values |-> None]
    /\ UNCHANGED <<nbvars, nnvars, tm>>

\* experiment.configs(conf, {...}): the values of the dictionary are set
experiment_configs ==
    /\ conf # None /\ conf.set = {}
    /\ conf' = [set |-> DOMAIN experiment_overrides, values |-> experiment_overrides]
    /\ UNCHANGED <<nbvars, nnvars, tm>>

NextLN ==
    \/ NewLayerNorm
    \/ CallLayerNorm
    \/ NewConfigs
    \/ experiment_configs

SpecLN == InitNN /\ [][NextLN]_vars

(***************************************************************************)
(* time_pytorch_function_cpu(func, *input, num_repeats), step by step.     *)
(* tm is the frame of the call: the position pc, the loop counters w and   *)
(* k, the list times, start, and the result; calls counts the calls of     *)
(* func and clock is time.time(), which a call of func advances by the     *)
(* time it takes.  A call of func returns or raises; an exception ends the *)
(* call of time_pytorch_function_cpu without a result.                     *)
(***************************************************************************)
\* for _ in range(5)
warmup_calls == 5

\* the seconds a call of func can take
Durations == {Q(1, 1000), Q(2, 1000)}

\* np.mean(times), and np.std(times) squared; NaN for an empty list
Mean(ts) == IF ts = <<>> THEN NaN ELSE XDiv(XSum(ts), I(Len(ts)))
Variance(ts) ==
    IF ts = <<>> THEN NaN
    ELSE Mean([i \in 1..Len(ts) |->
                 XMul(XSub(ts[i], Mean(ts)), XSub(ts[i], Mean(ts)))])

\* time_pytorch_function_cpu(fn, embeddings, num_repeats=...) is entered
CallTimeFunction ==
    /\ tm = None
    /\ \E num_repeats \in 0..MaxRepeats :
          tm' = [pc |-> "warmup", num_repeats |-> num_repeats, w |-> 0, k |-> 0,
                 calls |-> 0, times |-> <<>>, start |-> I(0), clock |-> I(0),
                 ret |-> None]
    /\ UNCHANGED <<nbvars, nnvars, conf>>

\* func(*input): the frame after a call that took d seconds
FuncReturned(f, d) == [f EXCEPT !.calls = f.calls + 1, !.clock = XAdd(f.clock, d)]

\* func(*input) raised: the exception leaves time_pytorch_function_cpu
FuncRaised(f) == [f EXCEPT !.calls = f.calls + 1, !.pc = "raised"]

\* for _ in range(5): func(*input)
WarmupCall ==
    /\ tm # None /\ tm.pc = "warmup" /\ tm.w < warmup_calls
    /\ \/ \E d \in Durations : tm' = [FuncReturned(tm, d) EXCEPT !.w = tm.w + 1]
       \/ tm' = FuncRaised(tm)
    /\ UNCHANGED <<nbvars, nnvars, conf>>

\* the warm-up loop is over: times = []
WarmupDone ==
    /\ tm # None /\ tm.pc = "warmup" /\ tm.w = warmup_calls
    /\ tm' = [tm EXCEPT !.times = <<>>, !.pc = "loop"]
    /\ UNCHANGED <<nbvars, nnvars, conf>>

\* start = time.time()
TimedStart ==
    /\ tm # None /\ tm.pc = "loop" /\ tm.k < tm.num_repeats
    /\ tm' = [tm EXCEPT !.start = tm.clock, !.pc = "call"]
    /\ UNCHANGED <<nbvars, nnvars, conf>>

\* func(*input), between the two readings of the clock
TimedCall ==
    /\ tm # None /\ tm.pc = "call"
    /\ \/ \E d \in Durations : tm' = [FuncReturned(tm, d) EXCEPT !.pc = "end"]
       \/ tm' = FuncRaised(tm)
    /\ UNCHANGED <<nbvars, nnvars, conf>>

\* the fault of a timed iteration that records nothing
TimedAppend_Dropped ==
    /\ tm # None /\ tm.pc = "end"
    /\ tm' = [tm EXCEPT !.k = tm.k + 1, !.pc = "loop"]
    /\ UNCHANGED <<nbvars, nnvars, conf>>

\* end = time.time(); times.append((end-start)*1000)
TimedAppend ==
    /\ tm # None /\ tm.pc = "end"
    /\ tm' = [tm EXCEPT !.times = Append(tm.times, XMul(XSub(tm.clock, tm.start), I(1000))),
                        !.k = tm.k + 1, !.pc = "loop"]
    /\ UNCHANGED <<nbvars, nnvars, conf>>

\* return np.mean(times), np.std(times)
ReturnStats ==
    /\ tm # None /\ tm.pc = "loop" /\ tm.k = tm.num_repeats
    /\ tm' = [tm EXCEPT !.pc = "returned",
                        !.ret = [mean |-> Mean(tm.times), var |-> Variance(tm.times),
                                 n |-> Len(tm.times)]]
    /\ UNCHANGED <<nbvars, nnvars, conf>>

NextTime ==
    \/ CallTimeFunction
    \/ WarmupCall
    \/ WarmupDone
    \/ TimedStart
    \/ TimedCall
    \/ TimedAppend
    \/ ReturnStats

SpecTime == InitNN /\ [][NextTime]_vars

\* a call on a module of one of classes has ended, by a return or an error
Called(classes) ==
    /\ net # None /\ net.cls \in classes
    /\ inp # None /\ outp # None

\* the MHAPyTorchScaledDotProduct module with the weights of a
\* MHAPyTorchSDPAWithoutFlash module
AsScaledDotProduct(mod) ==
    [mod EXCEPT !.cls = "MHAPyTorchScaledDotProduct", !.buffers = Empty]

\* C11, as the specification states it: under the boolean attn_mask that
\* MHAPyTorchSDPAWithoutFlash hands to scaled_dot_product_attention, where
\* True marks a position that takes part, query position i attends to key
\* position j exactly when j <= i, and the call returns what
\* MHAPyTorchScaledDotProduct (is_causal=True) returns with the same weights.
C11_ExplicitMaskIsCausal ==
    (Called({"MHAPyTorchSDPAWithoutFlash"}) /\ NumTokens <= net.hp.context_length) =>
        /\ \A i \in 1..NumTokens, j \in 1..NumTokens :
              SelectAttnMask(net, NumTokens)[i][j] <=> j <= i
        /\ outp = MHAPyTorchScaledDotProduct_forward(AsScaledDotProduct(net), inp.x, inp.kid)

\* C12, as the specification states it: for every num_tokens, at most
\* context_length or above it, the attn_mask that
\* MHAPyTorchSDPAWithoutFlash.forward selects has shape
\* num_tokens x num_tokens, and the call does not fail on its shape.
C12_AttnMaskShape ==
    Called({"MHAPyTorchSDPAWithoutFlash"}) =>
        /\ Rows(SelectAttnMask(net, NumTokens)) = NumTokens
        /\ Cols(SelectAttnMask(net, NumTokens)) = NumTokens
        /\ outp.err = NoErr

MultiHeadClasses == {"MHA_Wrapper", "MHA", "MultiHeadAttentionCombinedQKV",
                     "MHAPyTorchScaledDotProduct", "MHAPyTorchSDPAWithoutFlash"}

\* the total output width a module is configured with: MHA_Wrapper
\* concatenates num_heads heads of width d_out
OutWidth(mod) ==
    IF mod.cls = "MHA_Wrapper" THEN mod.hp.d_out * mod.hp.num_heads ELSE mod.hp.d_out

\* v.shape == (b, n, d) for a tensor of three dimensions
HasShape(v, b, n, d) ==
    /\ Len(v) = b
    /\ \A k \in 1..b : /\ Len(v[k]) = n
                       /\ \A i \in 1..n : Len(v[k][i]) = d

\* C13: each of the five multi-head modules, configured with a total output
\* width equal to the embedding width, maps an input of shape
\* (batch, num_tokens, embed_dim) with num_tokens <= context_length to an
\* output of the same shape, without raising.
C13_OutputShape ==
    (/\ Called(MultiHeadClasses)
     /\ OutWidth(net) = net.hp.d_in
     /\ NumTokens <= net.hp.context_length) =>
        /\ outp.err = NoErr
        /\ HasShape(inp.x.val, Len(inp.x.val), NumTokens, net.hp.d_in)
        /\ HasShape(outp.out, Len(inp.x.val), NumTokens, net.hp.d_in)

\* a batch of two samples of two tokens through an MHA_Wrapper of two heads
\* of width one
C13_Witness ==
    /\ Done({"MHA_Wrapper"}) /\ net.hp.num_heads = 2 /\ net.hp.d_in = 2
    /\ NumTokens = 2 /\ net.hp.context_length = 2
    /\ HasShape(outp.out, 2, 2, 2)

\* the classes whose constructor asserts d_out % num_heads == 0
AssertingClasses == MultiHeadClasses \ {"MHA_Wrapper"}

\* C14: constructing MHA, MultiHeadAttentionCombinedQKV,
\* MHAPyTorchScaledDotProduct or MHAPyTorchSDPAWithoutFlash with d_out not
\* divisible by num_heads fails with an assertion error and yields no
\* module; every constructed instance has num_heads * head_dim = d_out.
C14_HeadsDivideWidth ==
    /\ (net # None /\ net.cls \in AssertingClasses) =>
          /\ net.hp.d_out % net.hp.num_heads = 0
          /\ net.hp.num_heads * net.hp.head_dim = net.hp.d_out
    /\ (net = None /\ outp # None) =>
          /\ outp = Raise("AssertionError")
          /\ \A seed \in Seeds, hc \in HeadCfgs, cl \in 1..MaxCtx, p \in DropoutRates :
                hc[2] % hc[3] # 0 =>
                   /\ MHA_init(seed, hc[1], hc[2], cl, p, hc[3]) = outp
                   /\ MultiHeadAttentionCombinedQKV_init(seed, hc[1], hc[2], hc[3], cl, p) = outp
                   /\ MHAPyTorchScaledDotProduct_init(seed, hc[1], hc[2], hc[3], cl, p) = outp
                   /\ MHAPyTorchSDPAWithoutFlash_init(seed, hc[1], hc[2], hc[3], cl, p) = outp

\* a constructor was called with d_out = 4 and num_heads = 3, and failed
C14_Witness ==
    /\ net = None /\ outp = Raise("AssertionError")
    /\ \E hc \in HeadCfgs : hc[2] % hc[3] # 0

\* x normalised with the statistics mean and var, then scaled and shifted:
\* entry by entry, scale * (x - mean) over the square root of var + eps,
\* plus shift
Normalised(mod, xt, mean, var) ==
    Vec([i \in 1..Len(xt.val) |-> Vec([c \in 1..Len(xt.val[i]) |->
        Vec([j \in 1..Len(xt.val[i][c]) |->
            <<XMul(IF mod.hp.affine THEN mod.params["scale"].val[c] ELSE I(1),
                   XSub(xt.val[i][c][j], mean[c])),
              XAdd(var[c], mod.hp.eps),
              IF mod.hp.affine THEN mod.params["shift"].val[c] ELSE I(0)>>])])])

\* C15: BatchNorm.forward normalises with the mean and variance of the
\* current batch whenever the module is in training mode or
\* track_running_stats is False, and with the stored exp_mean and exp_var
\* exactly when it is in eval mode and track_running_stats is True.
C15_WhichStatistics ==
    Done({"BatchNorm"}) =>
        IF net.training \/ ~net.hp.track_running_stats
        THEN outp.val = Normalised(net, inp.x, BatchMean(inp.x), BatchVar(inp.x))
        ELSE outp.val = Normalised(net, inp.x, net.buffers["exp_mean"].val,
                                   net.buffers["exp_var"].val)

\* an eval-mode call after a training-mode call has moved the running
\* statistics, on a batch whose own statistics differ from the stored ones
C15_Witness ==
    /\ Done({"BatchNorm"}) /\ ~net.training /\ net.hp.track_running_stats
    /\ nupd >= 1
    /\ net.buffers["exp_mean"].val # BatchMean(inp.x)
    /\ net.buffers["exp_var"].val # BatchVar(inp.x)
    /\ outp.val # Normalised(net, inp.x, BatchMean(inp.x), BatchVar(inp.x))

\* C19: BatchNorm.forward called with an input whose dimension 1 differs
\* from channels raises an assertion error before any statistic is
\* computed: the module, exp_mean and exp_var included, is after the failed
\* call what it was before it, also in training mode.
C19_FailedCallKeepsStatistics ==
    [][(Returns({"BatchNorm"}) /\ inp.x.shape[2] # net.hp.channels) =>
          /\ outp' = Raise("AssertionError")
          /\ net' = net]_vars

\* a failed call in training mode on a module whose running statistics
\* earlier calls have moved
C19_Witness ==
    /\ Called({"BatchNorm"}) /\ net.training /\ net.hp.track_running_stats
    /\ inp.x.shape[2] # net.hp.channels
    /\ outp = Raise("AssertionError")
    /\ nupd >= 1
    /\ net.buffers["exp_mean"].val[1] # I(0)

(***************************************************************************)
(* Properties of LayerNorm, checked under SpecLN.                          *)
(***************************************************************************)
\* the input's trailing dimensions are those of the module's normalized_shape
ShapesMatch ==
    LastDims(inp.x.shape, Len(net.hp.normalized_shape.v)) = net.hp.normalized_shape.v

AcceptedTypes == {"int", "list", "Size"}

\* the state after a constructor call, before any forward call
Constructed == inp = None /\ (net # None \/ outp # None)

\* C17: LayerNorm's constructor accepts normalized_shape as an int, a list
\* of ints or a torch.Size and stores it as a torch.Size in each case (an
\* int n as Size([n])); a normalized_shape of any other type fails the
\* constructor's assertion and yields no module.
C17_NormalizedShapeTypes ==
    /\ (net # None /\ net.cls = "LayerNorm") => net.hp.normalized_shape.type = "Size"
    /\ Constructed =>
          /\ net = None => outp = Raise("AssertionError")
          /\ \A a \in 1..Len(NormalizedShapes), affine \in BOOLEAN :
                LET arg == NormalizedShapes[a]
                    r == LayerNorm_init(arg, ln_eps, affine)
                IN IF arg.type \in AcceptedTypes
                   THEN /\ "err" \notin DOMAIN r
                        /\ r.hp.normalized_shape =
                              PyVal("Size", IF arg.type = "int" THEN <<arg.v>> ELSE arg.v)
                   ELSE r = Raise("AssertionError")

\* a module built from an int, holding the Size of one dimension
C17_Witness ==
    /\ Constructed /\ net # None
    /\ net.hp.normalized_shape = PyVal("Size", <<3>>)
    /\ \E a \in 1..Len(NormalizedShapes) :
          /\ NormalizedShapes[a].type = "int"
          /\ LayerNorm_init(NormalizedShapes[a], ln_eps, net.hp.elementwise_affine) = net

C18_ConfigValuesAsCommented ==
    (conf # None /\ conf.set # {}) =>
        /\ {"seq_len", "epochs", "batch_size", "inner_iterations"} \subseteq conf.set
        /\ conf.values["seq_len"] = 256
        /\ conf.values["epochs"] = 32
        /\ conf.values["batch_size"] = 32
        /\ conf.values["inner_iterations"] = 10

(***************************************************************************)
(* Properties of time_pytorch_function_cpu, checked under SpecTime.        *)
(***************************************************************************)
\* this step is a call of func
FuncCalled == tm # None /\ tm'.calls # tm.calls

\* this step is a call of func between start = time.time() and end = time.time()
TimedFuncCalled == FuncCalled /\ tm.pc = "call"

\* C21: time_pytorch_function_cpu calls func exactly 5 + num_repeats times:
\* 5 untimed warm-up calls that all happen before the first timed call,
\* then num_repeats timed calls that each append exactly one entry to
\* times, so the returned mean and standard deviation are taken over
\* exactly num_repeats samples.  (Of a call that returns: an exception of
\* func ends it earlier, without a result.)
C21_WarmupThenTimedCalls ==
    /\ []((tm # None /\ tm.pc = "returned") =>
             /\ tm.calls = 5 + tm.num_repeats
             /\ Len(tm.times) = tm.num_repeats
             /\ tm.ret.n = tm.num_repeats
             /\ tm.ret.mean = Mean(tm.times)
             /\ tm.ret.var = Variance(tm.times))
    /\ [][/\ FuncCalled => tm'.calls = tm.calls + 1
          \* the first five calls are the untimed ones, the later ones timed
          /\ FuncCalled => (TimedFuncCalled <=> tm.calls >= 5)
          /\ (FuncCalled /\ ~TimedFuncCalled) => tm'.times = tm.times
          \* a returned timed call is followed by one new entry, and
          \* nothing else adds one: entry n is the time of call 5 + n
          /\ (tm # None /\ tm.pc = "end") =>
                /\ Len(tm'.times) = Len(tm.times) + 1
                /\ tm.calls = 5 + Len(tm'.times)
                /\ tm'.times[Len(tm'.times)] \in {I(1), I(2)}
          /\ (tm # None /\ tm.pc # "end") => Len(tm'.times) <= Len(tm.times)]_vars

\* a call with num_repeats = 2 has returned the statistics of two
\* different samples
C21_Witness ==
    /\ tm # None /\ tm.pc = "returned" /\ tm.num_repeats = 2
    /\ tm.calls = 7 /\ tm.times = <<I(1), I(2)>>
    /\ tm.ret = [mean |-> Q(3, 2), var |-> Q(1, 4), n |-> 2]

====
